---- MODULE Spec2Model ----
(***************************************************************************)
(* A model of sigma-rust's discrete-log Sigma protocol                     *)
(* (ergotree-interpreter/src/sigma_protocol/dlog_protocol.rs), of the      *)
(* ProofBytes / ProverResult encodings (prover_result.rs, json.rs) and of  *)
(* the SimpleBoxSelector (ergo-lib/src/wallet/box_selector/simple.rs).     *)
(*                                                                         *)
(* The four parts share no state.  Each has its own specification:         *)
(*   SpecDlog       the three-move protocol and simulate                   *)
(*   SpecCodec      serialize/parse and text round trips of a ProofBytes   *)
(*   SpecConstruct  the public construction paths of ProofBytes and        *)
(*                  ProverResult from raw bytes, text, streams and JSON    *)
(*   SpecSelect     SimpleBoxSelector::select                              *)
(* A specification holds the variables of the other parts at their         *)
(* initial values.                                                         *)
(***************************************************************************)
EXTENDS Integers, Sequences, FiniteSets, TLC

VARIABLES
    \* ---- discrete-log protocol session
    dl_pc,      \* Initial, Committed, Responded, Verified, Rejected, Panicked
    dl_w,       \* prover's secret scalar (DlogProverInput.w)
    dl_r,       \* randomness returned by first_message
    dl_a,       \* commitment returned by first_message
    dl_e,       \* the challenge
    dl_z,       \* the response handed to the verifier
    dl_honest,  \* TRUE iff dl_z was produced by second_message
    dl_sim,     \* outcome of simulate
    \* ---- codec round trips of one ProofBytes value
    cx,         \* the ProofBytes value
    c_wire,     \* result of sigma_serialize(cx)
    c_back,     \* result of sigma_parse on the written bytes
    c_text,     \* Into<String>(cx)
    c_tback,    \* TryFrom<String> of that text
    \* ---- public construction paths
    k_op,       \* the last construction operation
    k_in,       \* its input
    k_out,      \* its result
    \* ---- box selection
    s_inputs, s_balance, s_tokens, s_result

dlVars == <<dl_pc, dl_w, dl_r, dl_a, dl_e, dl_z, dl_honest, dl_sim>>
cVars  == <<cx, c_wire, c_back, c_text, c_tback>>
kVars  == <<k_op, k_in, k_out>>
sVars  == <<s_inputs, s_balance, s_tokens, s_result>>
vars   == <<dlVars, cVars, kVars, sVars>>

\* Results of fallible operations.
Ok(v)  == <<"Ok", v>>
Err(e) == <<"Err", e>>
IsOk(res)  == res[1] = "Ok"
IsErr(res) == res[1] = "Err"
None == <<"None">>

(***************************************************************************)
(* Group primitive.  The code uses secp256k1 through dlog_group; the model *)
(* uses the subgroup of order GroupOrder of the integers modulo            *)
(* FieldPrime, generated by Generator: a cyclic group of prime order, like *)
(* secp256k1.  Scalars are the integers modulo GroupOrder.                 *)
(***************************************************************************)
FieldPrime == 23
GroupOrder == 11
Generator  == 2

\* Width of a challenge in bits (SOUNDNESS_BITS in the code, scaled down).
ChallengeBits == 3

RECURSIVE Pow2(_)
Pow2(n) == IF n = 0 THEN 1 ELSE 2 * Pow2(n - 1)

Scalars    == 0 .. GroupOrder - 1
Challenges == 0 .. Pow2(ChallengeBits) - 1
MaxChallenge == Pow2(ChallengeBits) - 1

\* dlog_group::exponentiate(base, exponent)
RECURSIVE exponentiate(_, _)
exponentiate(base, k) ==
    IF k = 0 THEN 1 ELSE (base * exponentiate(base, k - 1)) % FieldPrime

\* dlog_group::inverse(point)
inverse(point) == exponentiate(point, FieldPrime - 2)

\* EcPoint's Mul: the group operation
PointMul(p1, p2) == (p1 * p2) % FieldPrime

\* Scalar from Challenge (range-reduced modulo the group order)
ChallengeToScalar(e) == e % GroupOrder

\* DlogProverInput::public_image: h = g^w
public_image(w) == exponentiate(Generator, w)

\* A bug second_message could have: the secret is left out of the response.
second_message_NoSecret(w, rnd, challenge) ==
    (rnd + ChallengeToScalar(challenge)) % GroupOrder

\* interactive_prover::second_message: z = rnd + e * w (mod q)
second_message(w, rnd, challenge) ==
    LET e  == ChallengeToScalar(challenge)
        ew == (e * w) % GroupOrder
    IN  (rnd + ew) % GroupOrder

\* A bug compute_commitment could have: h^e is not inverted.
compute_commitment_NoInverse(h, challenge, z) ==
    PointMul(exponentiate(Generator, z),
             exponentiate(h, ChallengeToScalar(challenge)))

\* interactive_prover::compute_commitment: a = g^z / h^e
compute_commitment(h, challenge, z) ==
    LET e   == ChallengeToScalar(challenge)
        g_z == exponentiate(Generator, z)
        h_e == exponentiate(h, e)
    IN  PointMul(g_z, inverse(h_e))

DlInit ==
    /\ dl_pc = "Initial"
    /\ dl_w \in Scalars
    /\ dl_r = 0
    /\ dl_a = 1
    /\ dl_e = 0
    /\ dl_z = 0
    /\ dl_honest = FALSE
    /\ dl_sim = None

\* interactive_prover::first_message: r random, a = g^r
FirstMessage ==
    /\ dl_pc = "Initial"
    /\ \E r \in Scalars :
         /\ dl_r' = r
         /\ dl_a' = exponentiate(Generator, r)
    /\ dl_pc' = "Committed"
    /\ UNCHANGED <<dl_w, dl_e, dl_z, dl_honest, dl_sim>>
    /\ UNCHANGED <<cVars, kVars, sVars>>

\* The challenge arrives and the prover answers with second_message.
SecondMessage ==
    /\ dl_pc = "Committed"
    /\ \E e \in Challenges :
         /\ dl_e' = e
         /\ dl_z' = second_message(dl_w, dl_r, e)
    /\ dl_honest' = TRUE
    /\ dl_pc' = "Responded"
    /\ UNCHANGED <<dl_w, dl_r, dl_a, dl_sim>>
    /\ UNCHANGED <<cVars, kVars, sVars>>

\* The challenge arrives and the verifier is handed an arbitrary scalar.
ForgedResponse ==
    /\ dl_pc = "Committed"
    /\ \E e \in Challenges, z \in Scalars :
         /\ dl_e' = e
         /\ dl_z' = z
    /\ dl_honest' = FALSE
    /\ dl_pc' = "Responded"
    /\ UNCHANGED <<dl_w, dl_r, dl_a, dl_sim>>
    /\ UNCHANGED <<cVars, kVars, sVars>>

\* The verifier recomputes the commitment and compares it with a.
Verify ==
    /\ dl_pc = "Responded"
    /\ dl_pc' = IF compute_commitment(public_image(dl_w), dl_e, dl_z) = dl_a
                THEN "Verified" ELSE "Rejected"
    /\ UNCHANGED <<dl_w, dl_r, dl_a, dl_e, dl_z, dl_honest, dl_sim>>
    /\ UNCHANGED <<cVars, kVars, sVars>>

\* interactive_prover::simulate: the body is todo!(), which panics.
simulate(h, challenge) == <<"Panic", "not yet implemented">>

Simulate ==
    /\ dl_pc = "Initial"
    /\ \E e \in Challenges :
         /\ dl_e' = e
         /\ dl_sim' = simulate(public_image(dl_w), e)
    /\ dl_pc' = IF dl_sim'[1] = "Panic" THEN "Panicked" ELSE "Simulated"
    /\ UNCHANGED <<dl_w, dl_r, dl_a, dl_z, dl_honest>>
    /\ UNCHANGED <<cVars, kVars, sVars>>

DlNext == FirstMessage \/ SecondMessage \/ ForgedResponse \/ Verify \/ Simulate


(***************************************************************************)
(* ProofBytes (prover_result.rs).  A byte vector is a sequence of numbers  *)
(* in 0..255, a String a sequence of one-character strings.                *)
(***************************************************************************)
\* Longest byte vector enumerated in full.
MaxLen == 2
\* How far past the 16-bit ceiling the long byte vectors go.
OverLen == 1
\* 2^16: `bytes.len() as u16` keeps the length modulo this.
U16Modulus == 65536

ByteSample == {0, 1, 171, 255}

RECURSIVE SeqsUpTo(_, _)
SeqsUpTo(S, n) ==
    IF n = 0 THEN {<<>>}
    ELSE LET shorter == SeqsUpTo(S, n - 1)
         IN  shorter \cup {Append(q, x) : q \in {t \in shorter : Len(t) = n - 1}, x \in S}

RECURSIVE Fill(_, _)
Fill(n, b) ==
    IF n = 0 THEN <<>>
    ELSE IF n % 2 = 1 THEN Append(Fill(n - 1, b), b)
    ELSE LET half == Fill(n \div 2, b) IN half \o half

ShortVecs == SeqsUpTo(ByteSample, MaxLen)
LongLens  == {U16Modulus - 1} \cup (U16Modulus .. U16Modulus + OverLen)
LongVecs  == {Fill(n, b) : n \in LongLens, b \in ByteSample}

\* enum ProofBytes { Empty, Some(Vec<u8>) }
Empty   == [tag |-> "Empty", bytes |-> <<>>]
Some(b) == [tag |-> "Some", bytes |-> b]

\* Every value of the type that the enumeration reaches, the variants being public.
ProofBytesValues == {Empty} \cup {Some(b) : b \in ShortVecs \cup LongVecs}

\* Into<Vec<u8>> for ProofBytes
ProofBytes_into_vec(p) == IF p.tag = "Empty" THEN <<>> ELSE p.bytes

\* A bug From<Vec<u8>> could have: the empty vector is not normalized.
ProofBytes_from_NoNormalize(bytes) == Some(bytes)

\* From<Vec<u8>> for ProofBytes
ProofBytes_from(bytes) == IF Len(bytes) = 0 THEN Empty ELSE Some(bytes)

LowerDigits == <<"0", "1", "2", "3", "4", "5", "6", "7",
                 "8", "9", "a", "b", "c", "d", "e", "f">>
UpperDigits == <<"0", "1", "2", "3", "4", "5", "6", "7",
                 "8", "9", "A", "B", "C", "D", "E", "F">>

\* The characters base16::decode accepts, and the value of each.
HexChars == {LowerDigits[i] : i \in 1 .. 16} \cup {UpperDigits[i] : i \in 1 .. 16}
HexValue ==
    [c \in HexChars |->
        (CHOOSE i \in 1 .. 16 : LowerDigits[i] = c \/ UpperDigits[i] = c) - 1]
IsHexChar(c) == c \in HexChars
HexVal(c) == HexValue[c]

\* base16::encode_lower
encode_lower(bytes) ==
    LET n == Len(bytes)
        out == [i \in 1 .. 2 * n |->
                  IF i % 2 = 1 THEN LowerDigits[(bytes[(i + 1) \div 2] \div 16) + 1]
                               ELSE LowerDigits[(bytes[i \div 2] % 16) + 1]]
    IN  SubSeq(out, 1, 2 * n)

\* base16::decode
base16_decode(s) ==
    IF Len(s) % 2 # 0 THEN Err("InvalidLength")
    ELSE IF \E i \in 1 .. Len(s) : ~IsHexChar(s[i]) THEN Err("InvalidByte")
    ELSE LET n == Len(s) \div 2
             out == [i \in 1 .. n |-> 16 * HexVal(s[2 * i - 1]) + HexVal(s[2 * i])]
         IN  Ok(SubSeq(out, 1, n))

\* Into<String> for ProofBytes
ProofBytes_into_string(p) ==
    IF p.tag = "Empty" THEN <<>> ELSE encode_lower(p.bytes)

\* Bugs TryFrom<String> could have: the decoded bytes are wrapped as they are;
\* a failed decode becomes Empty.
ProofBytes_try_from_NoNormalize(value) ==
    LET d == base16_decode(value)
    IN  IF IsOk(d) THEN Ok(Some(d[2])) ELSE d

ProofBytes_try_from_ErrToEmpty(value) ==
    LET d == base16_decode(value)
    IN  IF IsOk(d) THEN Ok(ProofBytes_from(d[2])) ELSE Ok(Empty)

\* TryFrom<String> for ProofBytes
ProofBytes_try_from(value) ==
    LET d == base16_decode(value)
    IN  IF IsOk(d) THEN Ok(ProofBytes_from(d[2])) ELSE d

\* SigmaByteWrite::put_u16: a 16-bit length prefix, two bytes
put_u16(v) == <<v \div 256, v % 256>>

\* SigmaByteRead::get_u16 on the bytes left: the value, or an error when
\* fewer than two bytes are left
get_u16(stream) ==
    IF Len(stream) < 2 THEN Err("UnexpectedEof")
    ELSE Ok(stream[1] * 256 + stream[2])

\* Read::read_exact of n bytes after the prefix
read_exact(stream, n) ==
    IF Len(stream) - 2 < n THEN Err("UnexpectedEof")
    ELSE Ok(SubSeq(stream, 3, 2 + n))

\* ProofBytes::sigma_serialize into an in-memory writer: the bytes written
sigma_serialize(p) ==
    IF p.tag = "Empty" THEN Ok(put_u16(0))
    ELSE Ok(put_u16(Len(p.bytes) % U16Modulus) \o p.bytes)

\* A bug sigma_parse could have: a zero length is not mapped to Empty.
sigma_parse_NoEmpty(stream) ==
    LET proof_len == get_u16(stream)
    IN  IF IsErr(proof_len) THEN proof_len
        ELSE LET bytes == read_exact(stream, proof_len[2])
             IN  IF IsErr(bytes) THEN bytes ELSE Ok(Some(bytes[2]))

\* ProofBytes::sigma_parse
sigma_parse(stream) ==
    LET proof_len == get_u16(stream)
    IN  IF IsErr(proof_len) THEN proof_len
        ELSE IF proof_len[2] = 0 THEN Ok(Empty)
        ELSE LET bytes == read_exact(stream, proof_len[2])
             IN  IF IsErr(bytes) THEN bytes ELSE Ok(Some(bytes[2]))

CInit ==
    /\ cx \in ProofBytesValues
    /\ c_wire = None
    /\ c_back = None
    /\ c_text = None
    /\ c_tback = None

SerializeProof ==
    /\ c_wire = None
    /\ c_wire' = sigma_serialize(cx)
    /\ UNCHANGED <<cx, c_back, c_text, c_tback>>
    /\ UNCHANGED <<dlVars, kVars, sVars>>

ParseProof ==
    /\ IsOk(c_wire)
    /\ c_back = None
    /\ c_back' = sigma_parse(c_wire[2])
    /\ UNCHANGED <<cx, c_wire, c_text, c_tback>>
    /\ UNCHANGED <<dlVars, kVars, sVars>>

ProofToText ==
    /\ c_text = None
    /\ c_text' = Ok(ProofBytes_into_string(cx))
    /\ UNCHANGED <<cx, c_wire, c_back, c_tback>>
    /\ UNCHANGED <<dlVars, kVars, sVars>>

ProofFromText ==
    /\ IsOk(c_text)
    /\ c_tback = None
    /\ c_tback' = ProofBytes_try_from(c_text[2])
    /\ UNCHANGED <<cx, c_wire, c_back, c_text>>
    /\ UNCHANGED <<dlVars, kVars, sVars>>

CNext == SerializeProof \/ ParseProof \/ ProofToText \/ ProofFromText


(***************************************************************************)
(* ProverResult and its JSON forms (json.rs), and the public construction  *)
(* paths of ProofBytes.                                                    *)
(***************************************************************************)
\* Longest text enumerated.
MaxTextLen == 3
\* Longest byte stream enumerated.
MaxStreamLen == 4

TextSample   == {"0", "a", "F", "z"}
StreamSample == {0, 1, 2}

\* The spendingProof of the explorer API input in parse_proof_explorer_api.
ExplorerProof ==
    <<"7", "3", "6", "d", "8", "8", "2", "b", "b", "f", "a", "1", "7", "6", "7", "c",
      "e", "f", "6", "4", "e", "7", "1", "8", "e", "b", "7", "4", "f", "7", "6", "b",
      "9", "6", "8", "9", "1", "f", "b", "8", "a", "d", "4", "e", "8", "f", "d", "d",
      "9", "8", "7", "e", "c", "4", "5", "5", "0", "b", "3", "9", "d", "7", "c", "d",
      "a", "0", "c", "2", "8", "5", "f", "8", "3", "4", "6", "e", "8", "f", "8", "4",
      "2", "a", "c", "b", "a", "e", "0", "b", "3", "d", "8", "e", "2", "b", "5", "2",
      "d", "0", "3", "9", "c", "f", "1", "d", "a", "c", "e", "f", "c", "5", "1", "c">>

InputVecs    == ShortVecs
InputTexts   == SeqsUpTo(TextSample, MaxTextLen) \cup {ExplorerProof}
InputStreams == SeqsUpTo(StreamSample, MaxStreamLen)

\* ContextExtension: a key-value payload; ContextExtension::empty() has no entry.
ContextExtension_empty == {}
Extensions == {ContextExtension_empty, {<<1, 7>>}}

ProverResult(proof, extension) == [proof |-> proof, extension |-> extension]

\* JSON values at the place of a ProverResult.
JString(s)       == <<"string", s>>
JObject(pb, ext) == <<"object", pb, ext>>
JMap(ext)        == <<"map", ext>>
JNumber          == <<"number", 42>>
JArray           == <<"array">>
JNull            == <<"null">>
Absent           == <<"absent">>
JsonValues ==
    {JString(s) : s \in InputTexts}
    \cup {JObject(JString(s), JMap(x)) : s \in InputTexts, x \in Extensions}
    \cup {JObject(Absent, JMap(x)) : x \in Extensions}
    \cup {JObject(JString(s), Absent) : s \in {<<>>, <<"0", "a">>}}
    \cup {JNumber, JArray, JNull}

\* FromStr for ProverResult
ProverResult_from_str(s) ==
    LET proof_bytes == base16_decode(s)
    IN  IF IsErr(proof_bytes) THEN proof_bytes
        ELSE Ok(ProverResult(ProofBytes_from(proof_bytes[2]), ContextExtension_empty))

\* StringOrStruct::visit_str: from_str, the error wrapped in a message
visit_str(value) ==
    LET r == ProverResult_from_str(value)
    IN  IF IsErr(r) THEN Err(<<"while parsing proof bytes from string", r[2], value>>)
        ELSE r

\* Deserialize for ProverResult, field by field: proofBytes through
\* TryFrom<String>, extension through the extension's own decoding
ProverResult_deserialize(pb, ext) ==
    IF pb = Absent THEN Err("missing field proofBytes")
    ELSE IF ext = Absent THEN Err("missing field extension")
    ELSE LET proof == ProofBytes_try_from(pb[2])
         IN  IF IsErr(proof) THEN proof ELSE Ok(ProverResult(proof[2], ext[2]))

\* StringOrStruct::visit_map
visit_map(json) == ProverResult_deserialize(json[2], json[3])

\* A bug proof_as_string_or_struct could have: only the object shape is accepted.
proof_as_string_or_struct_StructOnly(json) ==
    IF json[1] = "object" THEN visit_map(json)
    ELSE Err("invalid type: expected map")

\* proof_as_string_or_struct: deserialize_any with the StringOrStruct visitor;
\* a shape the visitor has no method for is serde's invalid type error
proof_as_string_or_struct(json) ==
    IF json[1] = "string" THEN visit_str(json[2])
    ELSE IF json[1] = "object" THEN visit_map(json)
    ELSE Err("invalid type: expected string or map")

KInit ==
    /\ k_op = "none"
    /\ k_in = None
    /\ k_out = None

\* ProofBytes::from(bytes)
ConstructFromVec ==
    /\ \E bytes \in InputVecs :
           /\ k_op' = "from_vec"
           /\ k_in' = bytes
           /\ k_out' = Ok(ProofBytes_from(bytes))
    /\ UNCHANGED <<dlVars, cVars, sVars>>

\* ProofBytes::try_from(text)
ConstructTryFrom ==
    /\ \E text \in InputTexts :
           /\ k_op' = "try_from"
           /\ k_in' = text
           /\ k_out' = ProofBytes_try_from(text)
    /\ UNCHANGED <<dlVars, cVars, sVars>>

\* ProofBytes::sigma_parse(reader over stream)
ConstructSigmaParse ==
    /\ \E stream \in InputStreams :
           /\ k_op' = "sigma_parse"
           /\ k_in' = stream
           /\ k_out' = sigma_parse(stream)
    /\ UNCHANGED <<dlVars, cVars, sVars>>

\* ProverResult::from_str(text)
ConstructFromStr ==
    /\ \E text \in InputTexts :
           /\ k_op' = "from_str"
           /\ k_in' = text
           /\ k_out' = ProverResult_from_str(text)
    /\ UNCHANGED <<dlVars, cVars, sVars>>

\* A ProverResult deserialized from JSON through proof_as_string_or_struct
ConstructFromJson ==
    /\ \E json \in JsonValues :
           /\ k_op' = "json"
           /\ k_in' = json
           /\ k_out' = proof_as_string_or_struct(json)
    /\ UNCHANGED <<dlVars, cVars, sVars>>

\* The proof last constructed, if any.
HasProof == IsOk(k_out)
LastProof == IF k_op \in {"from_str", "json"} THEN k_out[2].proof ELSE k_out[2]

\* The proof last constructed is written with sigma_serialize and parsed again.
ConstructReparse ==
    /\ HasProof
    /\ LET wire == sigma_serialize(LastProof)
       IN  /\ IsOk(wire)
           /\ k_op' = "sigma_parse"
           /\ k_in' = wire[2]
           /\ k_out' = sigma_parse(wire[2])
    /\ UNCHANGED <<dlVars, cVars, sVars>>

\* The proof last constructed is turned into its bytes and constructed again.
ConstructRewrap ==
    /\ HasProof
    /\ k_op' = "from_vec"
    /\ k_in' = ProofBytes_into_vec(LastProof)
    /\ k_out' = Ok(ProofBytes_from(ProofBytes_into_vec(LastProof)))
    /\ UNCHANGED <<dlVars, cVars, sVars>>

\* The proof last constructed is turned into text and parsed again.
ConstructRetext ==
    /\ HasProof
    /\ k_op' = "try_from"
    /\ k_in' = ProofBytes_into_string(LastProof)
    /\ k_out' = ProofBytes_try_from(ProofBytes_into_string(LastProof))
    /\ UNCHANGED <<dlVars, cVars, sVars>>

KNext ==
    \/ ConstructFromVec \/ ConstructTryFrom \/ ConstructSigmaParse
    \/ ConstructFromStr \/ ConstructFromJson
    \/ ConstructReparse \/ ConstructRewrap \/ ConstructRetext


(***************************************************************************)
(* SimpleBoxSelector::select (simple.rs).  A box is a record of its value  *)
(* and its token list, a token a record of its id and amount, a HashMap a  *)
(* function on the set of its keys.                                        *)
(***************************************************************************)
\* Most boxes offered to one selection.
MaxInputs == 2
\* Largest token amount.
MaxAmount == 2

TokenIds  == {"A", "B"}
BoxValues == {1, 2}
TargetBalances == {1, 2, 3, 4}

Token(id, amount) == [token_id |-> id, amount |-> amount]
Tokens == {Token(id, n) : id \in TokenIds, n \in 1 .. MaxAmount}

\* Token lists of a box: none, one token, or one of each id.
BoxTokenLists ==
    {<<>>} \cup {<<t>> : t \in Tokens}
    \cup {<<Token("A", 1), Token("B", 1)>>, <<Token("B", 1), Token("A", 1)>>}
Boxes == {[value |-> v, tokens |-> ts] : v \in BoxValues, ts \in BoxTokenLists}

\* Target token lists: at most one entry per token id.
TargetLists ==
    {<<>>} \cup {<<t>> : t \in Tokens}
    \cup {<<t, u>> : t \in {x \in Tokens : x.token_id = "A"},
                     u \in {x \in Tokens : x.token_id = "B"}}
    \cup {<<u, t>> : t \in {x \in Tokens : x.token_id = "A"},
                     u \in {x \in Tokens : x.token_id = "B"}}

MapGet(m, k, default) == IF k \in DOMAIN m THEN m[k] ELSE default
MapPut(m, k, v) == [x \in DOMAIN m \cup {k} |-> IF x = k THEN v ELSE m[x]]
EmptyMap == <<>>

\* target_tokens.iter().map(|t| (id, amount)).collect(): a later entry of the
\* same id replaces an earlier one
RECURSIVE CollectTargets(_)
CollectTargets(target_tokens) ==
    IF target_tokens = <<>> THEN EmptyMap
    ELSE LET n == Len(target_tokens)
             t == target_tokens[n]
         IN  MapPut(CollectTargets(SubSeq(target_tokens, 1, n - 1)), t.token_id, t.amount)

\* b.tokens().iter().for_each(..): a token still unmet is reduced by the box's amount
RECURSIVE TakeTokens(_, _)
TakeTokens(unmet, tokens) ==
    IF tokens = <<>> THEN unmet
    ELSE LET t == Head(tokens)
             unmet_token_amount == MapGet(unmet, t.token_id, 0)
         IN  TakeTokens(IF unmet_token_amount > 0
                        THEN MapPut(unmet, t.token_id, unmet_token_amount - t.amount)
                        ELSE unmet,
                        Tail(tokens))

\* inputs.into_iter().for_each(..): a box is taken while the balance is unmet
RECURSIVE SelectLoop(_, _)
SelectLoop(st, inputs) ==
    IF inputs = <<>> THEN st
    ELSE LET b == Head(inputs)
         IN  IF st.unmet_target_balance > 0
             THEN SelectLoop(
                    [unmet_target_balance |-> st.unmet_target_balance - b.value,
                     unmet_target_tokens  |-> TakeTokens(st.unmet_target_tokens, b.tokens),
                     selected_inputs      |-> Append(st.selected_inputs, b)],
                    Tail(inputs))
             ELSE SelectLoop(st, Tail(inputs))

RECURSIVE AddTokens(_, _)
AddTokens(m, tokens) ==
    IF tokens = <<>> THEN m
    ELSE LET t == Head(tokens)
         IN  AddTokens(MapPut(m, t.token_id, MapGet(m, t.token_id, 0) + t.amount),
                       Tail(tokens))

\* sum_tokens(boxes): the total amount of every token id in the boxes
RECURSIVE sum_tokens(_)
sum_tokens(boxes) ==
    IF boxes = <<>> THEN EmptyMap
    ELSE AddTokens(sum_tokens(SubSeq(boxes, 1, Len(boxes) - 1)), boxes[Len(boxes)].tokens)

RECURSIVE sum_value(_)
sum_value(boxes) ==
    IF boxes = <<>> THEN 0 ELSE Head(boxes).value + sum_value(Tail(boxes))

\* target_tokens.iter().for_each(..) over change_tokens: the target amount is
\* taken off the selected amount.  unwrap() of an absent id panics; the u64
\* subtraction of a larger amount overflows.
RECURSIVE SubtractTargets(_, _)
SubtractTargets(st, target_tokens) ==
    IF target_tokens = <<>> \/ st.failed # "" THEN st
    ELSE LET t == Head(target_tokens)
         IN  IF t.token_id \notin DOMAIN st.change_tokens
             THEN [st EXCEPT !.failed = "unwrap on None"]
             ELSE IF st.change_tokens[t.token_id] < t.amount
             THEN [st EXCEPT !.failed = "subtract with overflow"]
             ELSE SubtractTargets(
                    [st EXCEPT !.change_tokens =
                        MapPut(@, t.token_id, st.change_tokens[t.token_id] - t.amount)],
                    Tail(target_tokens))

\* BoxValue::try_from(i64) and TokenAmount::try_from(u64) accept the positive
\* amounts; the model leaves open whether they accept zero.
BoxValue_try_from(v)    == IF v > 0 THEN {Ok(v)} ELSE {Ok(v), Err(<<"BoxValueError">>)}
TokenAmount_try_from(v) == IF v > 0 THEN {Ok(v)} ELSE {Ok(v), Err("TokenAmountError")}

\* The change boxes of a selection, lines 74-98: the possible outcomes.
ChangeBoxes(st, target_tokens) ==
    IF st.unmet_target_balance = 0 /\ DOMAIN st.unmet_target_tokens = {}
    THEN {Ok(<<>>)}
    ELSE LET abs == IF st.unmet_target_balance < 0 THEN -st.unmet_target_balance
                    ELSE st.unmet_target_balance
             init == [change_tokens |-> sum_tokens(st.selected_inputs), failed |-> ""]
             sub  == IF DOMAIN st.unmet_target_tokens # {}
                     THEN SubtractTargets(init, target_tokens) ELSE init
             amounts == {sub.change_tokens[id] : id \in DOMAIN sub.change_tokens}
             box(v) == [value  |-> v,
                        tokens |-> {Token(id, sub.change_tokens[id]) :
                                        id \in DOMAIN sub.change_tokens}]
         IN  UNION {
               IF IsErr(cv) THEN {cv}
               ELSE IF sub.failed # "" THEN {<<"Panic", sub.failed>>}
               ELSE (IF \A n \in amounts : Ok(n) \in TokenAmount_try_from(n)
                     THEN {Ok(<<box(cv[2])>>)} ELSE {})
                    \cup
                    (IF \E n \in amounts : \E r \in TokenAmount_try_from(n) : IsErr(r)
                     THEN {<<"Panic", "unwrap on Err">>} ELSE {})
               : cv \in BoxValue_try_from(abs) }

\* SimpleBoxSelector::select: the possible results
select(inputs, target_balance, target_tokens) ==
    LET st == SelectLoop([unmet_target_balance |-> target_balance,
                          unmet_target_tokens  |-> CollectTargets(target_tokens),
                          selected_inputs      |-> <<>>],
                         inputs)
        missing == {id \in DOMAIN st.unmet_target_tokens : st.unmet_target_tokens[id] > 0}
    IN  IF st.unmet_target_balance > 0
        THEN {Err(<<"NotEnoughCoins", st.unmet_target_balance>>)}
        ELSE IF target_tokens # <<>> /\ missing # {}
        THEN {Err(<<"NotEnoughTokens", id, st.unmet_target_tokens[id]>>) : id \in missing}
        ELSE {IF IsOk(c) THEN Ok([boxes |-> st.selected_inputs, change_boxes |-> c[2]])
              ELSE c : c \in ChangeBoxes(st, target_tokens)}

SInit ==
    /\ s_inputs \in SeqsUpTo(Boxes, MaxInputs)
    /\ s_balance \in TargetBalances
    /\ s_tokens \in TargetLists
    /\ s_result = None

Select ==
    /\ s_result = None
    /\ s_result' \in select(s_inputs, s_balance, s_tokens)
    /\ UNCHANGED <<s_inputs, s_balance, s_tokens>>
    /\ UNCHANGED <<dlVars, cVars, kVars>>

SNext == Select

(***************************************************************************)
(* The specifications.  A part that a specification leaves out stays idle. *)
(***************************************************************************)
DlIdle == dl_pc = "Initial" /\ dl_w = 0 /\ dl_r = 0 /\ dl_a = 1 /\ dl_e = 0
          /\ dl_z = 0 /\ dl_honest = FALSE /\ dl_sim = None
CIdle  == cx = Empty /\ c_wire = None /\ c_back = None /\ c_text = None
          /\ c_tback = None
SIdle  == s_inputs = <<>> /\ s_balance = 1 /\ s_tokens = <<>> /\ s_result = None

InitDlog      == DlInit /\ CIdle /\ KInit /\ SIdle
InitCodec     == CInit /\ DlIdle /\ KInit /\ SIdle
InitConstruct == KInit /\ DlIdle /\ CIdle /\ SIdle
InitSelect    == SInit /\ DlIdle /\ CIdle /\ KInit

SpecDlog      == InitDlog /\ [][DlNext]_vars
SpecCodec     == InitCodec /\ [][CNext]_vars
SpecConstruct == InitConstruct /\ [][KNext]_vars
SpecSelect    == InitSelect /\ [][SNext]_vars


(***************************************************************************)
(* The claims.                                                             *)
(***************************************************************************)
DlAnswered == dl_pc \in {"Responded", "Verified", "Rejected"}
DlDecided  == dl_pc \in {"Verified", "Rejected"}

\* C1 (completeness): a response made by second_message from the randomness
\* of first_message recomputes to the commitment of first_message, for every
\* secret and every challenge, so the verifier never rejects it.
C1_Completeness ==
    (DlAnswered /\ dl_honest) =>
        /\ compute_commitment(public_image(dl_w), dl_e, dl_z) = dl_a
        /\ dl_pc # "Rejected"

C1_Witness ==
    /\ dl_pc = "Verified" /\ dl_honest
    /\ dl_e = MaxChallenge /\ dl_w # 0 /\ dl_r # 0

\* C2 (binary round trip), as amended: for Empty and for Some(bytes) with
\* bytes of length 1..65535, sigma_parse of the bytes sigma_serialize wrote
\* gives the value back.
C2_BinaryRoundTrip ==
    (/\ c_back # None
     /\ cx # Some(<<>>)
     /\ Len(ProofBytes_into_vec(cx)) <= U16Modulus - 1)
    => (IsOk(c_back) /\ c_back[2] = cx)

C2_Witness ==
    /\ c_back # None /\ IsOk(c_back)
    /\ cx.tag = "Some" /\ Len(cx.bytes) = U16Modulus - 1
    /\ c_back[2] = cx

\* C2 as stated: the round trip also holds for Some(bytes) with bytes of length 0.
C2_RoundTripFromLengthZero ==
    (c_back # None /\ Len(ProofBytes_into_vec(cx)) <= U16Modulus - 1)
    => (IsOk(c_back) /\ c_back[2] = cx)

\* C3 (oversize payload): sigma_serialize of a payload longer than 65535
\* bytes is an error; no truncated length prefix is written.
C3_OversizeRejected ==
    (c_wire # None /\ Len(ProofBytes_into_vec(cx)) > U16Modulus - 1)
    => IsErr(c_wire)

\* C4 (normalization): ProofBytes::from of the empty vector is Empty, and no
\* public construction operation ever produces Some of the empty vector.
C4_Normalization ==
    /\ (k_op = "from_vec" /\ Len(k_in) = 0) => k_out = Ok(Empty)
    /\ HasProof => ~(LastProof.tag = "Some" /\ Len(LastProof.bytes) = 0)

C4_Witness ==
    k_op = "from_vec" /\ Len(k_in) = 0 /\ IsOk(k_out) /\ k_out[2].tag = "Empty"

LowerChars == {LowerDigits[i] : i \in 1 .. 16}
\* The text is the hexadecimal of the bytes, two digits a byte, most significant first.
IsHexOf(text, bytes) ==
    /\ Len(text) = 2 * Len(bytes)
    /\ \A i \in 1 .. Len(bytes) :
         /\ text[2 * i - 1] \in HexChars /\ text[2 * i] \in HexChars
         /\ 16 * HexValue[text[2 * i - 1]] + HexValue[text[2 * i]] = bytes[i]
IsLower(text) == \A i \in 1 .. Len(text) : text[i] \in LowerChars
ValidHex(text) ==
    Len(text) % 2 = 0 /\ \A i \in 1 .. Len(text) : text[i] \in HexChars

\* C5 (textual round trip), as amended: for every ProofBytes value other than
\* Some of the empty vector, try_from of its text gives the value back; the
\* text of Empty is empty, the text of Some(bytes) is the lowercase
\* hexadecimal of bytes, and the empty text parses to Empty.
C5_TextRoundTrip ==
    /\ (c_text # None) =>
          /\ IsHexOf(c_text[2], ProofBytes_into_vec(cx))
          /\ IsLower(c_text[2])
          /\ (cx = Empty => Len(c_text[2]) = 0)
    /\ (c_tback # None /\ Len(c_text[2]) = 0) => (IsOk(c_tback) /\ c_tback[2] = Empty)
    /\ (c_tback # None /\ cx # Some(<<>>)) => (IsOk(c_tback) /\ c_tback[2] = cx)

C5_Witness ==
    /\ c_tback # None /\ IsOk(c_tback)
    /\ cx = Some(<<171, 255>>)
    /\ c_text[2] = <<"a", "b", "f", "f">>
    /\ c_tback[2] = cx

\* C5 as stated: the round trip holds for every ProofBytes value.
C5_RoundTripEveryValue ==
    (c_tback # None) => (IsOk(c_tback) /\ c_tback[2] = cx)

\* C6 (JSON dual shape): a string of valid hex gives the proof of its decoded
\* bytes (two characters a byte) with the empty extension; an object gives the
\* proof of its proofBytes with its extension, hence the same result as the
\* bare string when its extension is empty; any other shape is an error.
C6_JsonDualShape ==
    (k_op = "json") =>
        /\ (k_in[1] = "string" /\ ValidHex(k_in[2])) =>
              /\ IsOk(k_out)
              /\ IsHexOf(k_in[2], ProofBytes_into_vec(k_out[2].proof))
              /\ k_out[2].extension = ContextExtension_empty
        /\ (k_in[1] = "object" /\ k_in[2] # Absent /\ k_in[3] # Absent
                /\ ValidHex(k_in[2][2])) =>
              /\ IsOk(k_out)
              /\ IsHexOf(k_in[2][2], ProofBytes_into_vec(k_out[2].proof))
              /\ k_out[2].extension = k_in[3][2]
              /\ (k_in[3][2] = ContextExtension_empty =>
                     k_out = proof_as_string_or_struct(JString(k_in[2][2])))
        /\ (k_in[1] \in {"number", "array", "null"}) => IsErr(k_out)

C6_Witness ==
    /\ k_op = "json" /\ k_in[1] = "string" /\ k_in[2] = ExplorerProof
    /\ IsOk(k_out)
    /\ Len(ProofBytes_into_vec(k_out[2].proof)) = 56
    /\ k_out[2].extension = ContextExtension_empty

\* C7 (failed decode): a stream whose length prefix declares more bytes than
\* remain, and a text that is not valid hexadecimal, each give an error, never
\* Empty nor any other ProofBytes value.
C7_DecodeFailureIsError ==
    /\ (/\ k_op = "sigma_parse" /\ Len(k_in) >= 2
        /\ k_in[1] * 256 + k_in[2] > Len(k_in) - 2) => IsErr(k_out)
    /\ (k_op \in {"try_from", "from_str"} /\ ~ValidHex(k_in)) => IsErr(k_out)
    /\ (k_op = "json" /\ k_in[1] = "string" /\ ~ValidHex(k_in[2])) => IsErr(k_out)

C7_Witness ==
    k_op = "try_from" /\ k_in = <<"z", "z">> /\ IsErr(k_out)

\* C8 (rejection): a response other than r + e*w (mod q) recomputes to a
\* commitment other than a, and the verifier's outcome is Rejected.
C8_Rejection ==
    (DlDecided /\ dl_z # (dl_r + dl_e * dl_w) % GroupOrder) =>
        /\ compute_commitment(public_image(dl_w), dl_e, dl_z) # dl_a
        /\ dl_pc = "Rejected"

C8_Witness ==
    /\ dl_pc = "Rejected" /\ ~dl_honest
    /\ dl_z # (dl_r + dl_e * dl_w) % GroupOrder
    /\ dl_e # 0 /\ dl_w # 0

\* C9 (simulate): simulate returns a transcript (a, z) with
\* a = compute_commitment(h, e, z), for every public image and challenge.
C9_SimulateVerifies ==
    (dl_pc \in {"Simulated", "Panicked"}) =>
        /\ dl_sim[1] = "Ok"
        /\ dl_sim[2].a = compute_commitment(public_image(dl_w), dl_e, dl_sim[2].z)

RECURSIVE ChangeTokenAmount(_, _)
ChangeTokenAmount(change_boxes, id) ==
    IF change_boxes = <<>> THEN 0
    ELSE LET here == {t \in Head(change_boxes).tokens : t.token_id = id}
         IN  (IF here = {} THEN 0 ELSE (CHOOSE t \in here : TRUE).amount)
             + ChangeTokenAmount(Tail(change_boxes), id)

RECURSIVE TargetAmount(_, _)
TargetAmount(target_tokens, id) ==
    IF target_tokens = <<>> THEN 0
    ELSE (IF Head(target_tokens).token_id = id THEN Head(target_tokens).amount ELSE 0)
         + TargetAmount(Tail(target_tokens), id)

\* C10 (conservation): when select returns Ok, the value of the selected
\* boxes is the target balance plus the value of the change boxes, and the
\* amount of every token in the selected boxes is its target amount plus its
\* amount in the change boxes.
C10_Conservation ==
    IsOk(s_result) =>
        /\ sum_value(s_result[2].boxes)
             = s_balance + sum_value(s_result[2].change_boxes)
        /\ \A id \in TokenIds :
             MapGet(sum_tokens(s_result[2].boxes), id, 0)
               = TargetAmount(s_tokens, id)
                 + ChangeTokenAmount(s_result[2].change_boxes, id)

\* The error select returned, if it is one of the two NotEnough errors.
IsNotEnoughCoins  == IsErr(s_result) /\ s_result[2][1] = "NotEnoughCoins"
IsNotEnoughTokens == IsErr(s_result) /\ s_result[2][1] = "NotEnoughTokens"

\* The inputs together hold the target balance and every target token.
InputsCover ==
    /\ sum_value(s_inputs) >= s_balance
    /\ \A id \in TokenIds :
         MapGet(sum_tokens(s_inputs), id, 0) >= TargetAmount(s_tokens, id)

\* C11 (errors only on insufficient inputs): NotEnoughCoins is returned only
\* if the inputs' total value is below the target balance, NotEnoughTokens for
\* a token only if the inputs' total amount of it is below its target amount;
\* inputs that cover the balance and every target token give neither error.
C11_FailsOnlyWhenInsufficient ==
    /\ IsNotEnoughCoins => sum_value(s_inputs) < s_balance
    /\ IsNotEnoughTokens =>
          MapGet(sum_tokens(s_inputs), s_result[2][2], 0)
            < TargetAmount(s_tokens, s_result[2][2])
    /\ InputsCover => ~(IsNotEnoughCoins \/ IsNotEnoughTokens)

====
